---- MODULE Spec2Model ----
(***************************************************************************)
(* Model of komm/_quantization.py: ScalarQuantizer and UniformQuantizer.   *)
(*                                                                         *)
(* Real numbers are represented exactly as integers counting 1/Unit, where *)
(* Unit is chosen so that every level, threshold, half step and input of   *)
(* the model is a whole number of units.  The IEEE values -inf, +inf and   *)
(* nan that numpy produces on a division by zero are the distinguished     *)
(* values NegInf, PosInf and NaN.                                          *)
(***************************************************************************)
EXTENDS Integers, Sequences, FiniteSets, TLC

VARIABLES args, q, err, called, x, y, requantized

vars == <<args, q, err, called, x, y, requantized>>

(***************************************************************************)
(* Bounds of the model.                                                    *)
(***************************************************************************)
\* largest num_levels tried for a UniformQuantizer (besides DocNumLevels)
MaxNumLevels == 4
\* longest levels list tried for a ScalarQuantizer
MaxScalarLevels == 3
\* largest input_peak tried (whole numbers, from -1)
MaxPeak == 2

\* the input grid spans [-XMax, XMax], beyond every level tried
XMax == MaxPeak + 1

\* num_levels of the UniformQuantizer doctest
DocNumLevels == 8

(***************************************************************************)
(* Number representation.                                                  *)
(***************************************************************************)
RECURSIVE Gcd(_, _)
Gcd(a, b) == IF b = 0 THEN a ELSE Gcd(b, a % b)

Lcm(a, b) == (a * b) \div Gcd(a, b)

RECURSIVE LcmUpTo(_)
LcmUpTo(n) == IF n <= 1 THEN 1 ELSE Lcm(n, LcmUpTo(n - 1))

NumLevelsTried == (0..MaxNumLevels) \cup {DocNumLevels}

\* 1.0 in model units: a multiple of 10 (inputs in tenths) and of 2*L for
\* every L tried (half steps input_peak/(2*L) are whole)
Unit == 10 * Lcm(LcmUpTo(MaxNumLevels), DocNumLevels)

Tenth == Unit \div 10

PosInf == 1000 * Unit
NegInf == -PosInf
NaN == PosInf + 1

IsFinite(v) == v > NegInf /\ v < PosInf

Range(s) == {s[i] : i \in 1..Len(s)}

SetMin(S) == CHOOSE m \in S : \A o \in S : m <= o

\* numpy true division of a float by an integer
TrueDiv(a, b) ==
    IF b # 0 THEN a \div b
    ELSE IF a > 0 THEN PosInf
    ELSE IF a < 0 THEN NegInf
    ELSE NaN

\* float addition, absorbing on inf and nan
AddF(a, b) == IF IsFinite(a) THEN a + b ELSE a

(***************************************************************************)
(* ScalarQuantizer.__init__                                                *)
(***************************************************************************)
\* np.unique: the sorted distinct elements
RECURSIVE SortedSeq(_)
SortedSeq(S) ==
    IF S = {} THEN <<>>
    ELSE LET m == SetMin(S) IN <<m>> \o SortedSeq(S \ {m})

Unique(s) == SortedSeq(Range(s))

\* np.array_equal: same shape and all elements equal (nan equals nothing)
ArrayEqual(a, b) ==
    /\ Len(a) = Len(b)
    /\ \A i \in 1..Len(a) : a[i] = b[i] /\ a[i] # NaN

\* interleaved[0::2] = levels; interleaved[1::2] = thresholds
Interleave(levels, thresholds) ==
    [i \in 1..(2 * Len(levels) - 1) |->
        IF i % 2 = 1 THEN levels[(i + 1) \div 2] ELSE thresholds[i \div 2]]

LengthOk(levels, thresholds) == Len(thresholds) = Len(levels) - 1

InterleavedOk(levels, thresholds) ==
    LET interleaved == Interleave(levels, thresholds)
    IN  ArrayEqual(Unique(interleaved), interleaved)

\* the second check done with np.sort in place of np.unique
ScalarInitOkSort(levels, thresholds) ==
    /\ LengthOk(levels, thresholds)
    /\ \A i \in 1..(2 * Len(levels) - 2) :
          Interleave(levels, thresholds)[i] <= Interleave(levels, thresholds)[i + 1]

\* both checks of the constructor pass (no ValueError raised)
ScalarInitOk(levels, thresholds) ==
    /\ LengthOk(levels, thresholds)
    /\ InterleavedOk(levels, thresholds)

NoQuantizer ==
    [cls |-> "none", levels |-> <<>>, thresholds |-> <<>>, num_levels |-> 0,
     quantization_step |-> 0, input_peak |-> 0, type |-> ""]

NoArgs ==
    [cls |-> "none", levels |-> <<>>, thresholds |-> <<>>, num_levels |-> 0,
     input_peak |-> 0, type_ |-> ""]

ScalarQuantizer(levels, thresholds) ==
    [cls |-> "ScalarQuantizer", levels |-> levels, thresholds |-> thresholds,
     num_levels |-> Len(levels), quantization_step |-> 0, input_peak |-> 0,
     type |-> ""]

(***************************************************************************)
(* ScalarQuantizer.__call__                                                *)
(***************************************************************************)
\* the comparison turned around: input_signal_tile < thresholds
CountBelow(thresholds, input_signal) ==
    Cardinality({j \in 1..Len(thresholds) : input_signal < thresholds[j]})

\* np.sum(input_signal_tile > thresholds): thresholds strictly below the input
CountAbove(thresholds, input_signal) ==
    Cardinality({j \in 1..Len(thresholds) : input_signal > thresholds[j]})

ScalarCall(levels, thresholds, input_signal) ==
    levels[CountAbove(thresholds, input_signal) + 1]

(***************************************************************************)
(* UniformQuantizer.__init__                                               *)
(***************************************************************************)
Types == {"unsigned", "mid-riser", "mid-tread"}

\* np.arange(lo, hi) as a sequence
Arange(lo, hi) == [i \in 1..(IF hi > lo THEN hi - lo ELSE 0) |-> lo + i - 1]

\* delta, in units; input_peak is a whole number
Delta(num_levels, input_peak, type_) ==
    IF type_ = "unsigned"
    THEN (input_peak * Unit) \div num_levels
    ELSE (2 * input_peak * Unit) \div num_levels

UniformLevels(num_levels, input_peak, type_) ==
    LET delta == Delta(num_levels, input_peak, type_)
        half == num_levels \div 2
        k == Arange((-num_levels) \div 2, half)
    IN  IF type_ = "unsigned"
        THEN [i \in 1..num_levels |-> (input_peak * Unit * (i - 1)) \div num_levels]
        ELSE IF type_ = "mid-riser"
        THEN [i \in 1..Len(k) |-> TrueDiv(input_peak * Unit * k[i], half)]
        ELSE [i \in 1..Len(k) |->
                AddF(TrueDiv(input_peak * Unit * k[i], half), delta \div 2)]

\* thresholds = (levels + delta/2)[:-1]
UniformThresholds(levels, delta) ==
    [i \in 1..(IF Len(levels) > 0 THEN Len(levels) - 1 ELSE 0) |->
        AddF(levels[i], delta \div 2)]

UniformQuantizer(num_levels, input_peak, type_) ==
    LET delta == Delta(num_levels, input_peak, type_)
        levels == UniformLevels(num_levels, input_peak, type_)
    IN  [cls |-> "UniformQuantizer", levels |-> levels,
         thresholds |-> UniformThresholds(levels, delta),
         num_levels |-> Len(levels), quantization_step |-> delta,
         input_peak |-> input_peak * Unit, type |-> type_]

\* the exception the constructor raises, or "none"
UniformInitError(num_levels, input_peak, type_) ==
    IF type_ \notin Types THEN "ValueError"
    ELSE IF num_levels = 0 THEN "ZeroDivisionError"
    ELSE LET u == UniformQuantizer(num_levels, input_peak, type_)
         IN  IF ScalarInitOk(u.levels, u.thresholds) THEN "none" ELSE "ValueError"

(***************************************************************************)
(* UniformQuantizer.__call__                                               *)
(***************************************************************************)
\* np.ceil in place of np.floor
QuantizeMidRiserCeil(delta, input_signal) ==
    IF delta = 0 THEN NaN
    ELSE delta * (-((-(2 * input_signal + delta)) \div (2 * delta)))

\* the + 0.5 left out: delta * np.floor(input_signal / delta)
QuantizeMidRiserTruncate(delta, input_signal) ==
    IF delta = 0 THEN NaN
    ELSE delta * (input_signal \div delta)

\* delta * np.floor(input_signal / delta + 0.5)
QuantizeMidRiser(delta, input_signal) ==
    IF delta = 0 THEN NaN
    ELSE delta * ((2 * input_signal + delta) \div (2 * delta))

\* delta * (np.floor(input_signal / delta) + 0.5)
QuantizeMidTread(delta, input_signal) ==
    IF delta = 0 THEN NaN
    ELSE delta * (input_signal \div delta) + delta \div 2

UniformCall(u, input_signal) ==
    IF u.type = "unsigned" THEN 0
    ELSE IF u.type = "mid-riser"
    THEN QuantizeMidRiser(u.quantization_step, input_signal)
    ELSE QuantizeMidTread(u.quantization_step, input_signal)

\* quantizer(input_signal), dispatched on the class of the object
Quantize(o, input_signal) ==
    IF o.cls = "UniformQuantizer"
    THEN UniformCall(o, input_signal)
    ELSE ScalarCall(o.levels, o.thresholds, input_signal)

(***************************************************************************)
(* Inputs tried.                                                           *)
(***************************************************************************)
\* the values of the ScalarQuantizer doctest: -1.0, -0.5, 0.0, 0.8, 1.0
ScalarValues == {-Unit, -(Unit \div 2), 0, 8 * Tenth, Unit}

RECURSIVE SeqsUpTo(_, _)
SeqsUpTo(S, n) ==
    IF n = 0 THEN {<<>>}
    ELSE LET shorter == SeqsUpTo(S, n - 1)
         IN  shorter \cup {Append(s, v) : s \in {t \in shorter : Len(t) = n - 1}, v \in S}

InputPeaks == (-1)..MaxPeak

TypesTried == Types \cup {"bogus"}

\* tenths over [-XMax, XMax]
Grid == {k * Tenth : k \in (-10 * XMax)..(10 * XMax)}

Finite(s) == {v \in Range(s) : IsFinite(v)}

\* the grid, plus every level and threshold of the quantizer and the
\* nearest values on either side of each threshold
Inputs(o) ==
    Grid \cup Finite(o.levels) \cup Finite(o.thresholds)
         \cup {t - 1 : t \in Finite(o.thresholds)}
         \cup {t + 1 : t \in Finite(o.thresholds)}

(***************************************************************************)
(* State machine.                                                          *)
(***************************************************************************)
Init ==
    /\ args = NoArgs
    /\ q = NoQuantizer
    /\ err = "none"
    /\ called = FALSE
    /\ x = 0
    /\ y = 0
    /\ requantized = FALSE

Fresh == args.cls = "none"

NewScalarQuantizer ==
    /\ Fresh
    /\ \E levels \in SeqsUpTo(ScalarValues, MaxScalarLevels),
          thresholds \in SeqsUpTo(ScalarValues, MaxScalarLevels - 1) :
        /\ args' = [NoArgs EXCEPT !.cls = "ScalarQuantizer", !.levels = levels,
                                  !.thresholds = thresholds]
        /\ IF ScalarInitOk(levels, thresholds)
           THEN q' = ScalarQuantizer(levels, thresholds) /\ err' = "none"
           ELSE q' = NoQuantizer /\ err' = "ValueError"
    /\ UNCHANGED <<called, x, y, requantized>>

NewUniformQuantizer ==
    /\ Fresh
    /\ \E num_levels \in NumLevelsTried, input_peak \in InputPeaks, type_ \in TypesTried :
        /\ args' = [NoArgs EXCEPT !.cls = "UniformQuantizer", !.num_levels = num_levels,
                                  !.input_peak = input_peak, !.type_ = type_]
        /\ err' = UniformInitError(num_levels, input_peak, type_)
        /\ q' = IF err' = "none"
                THEN UniformQuantizer(num_levels, input_peak, type_)
                ELSE NoQuantizer
    /\ UNCHANGED <<called, x, y, requantized>>

Call ==
    /\ q.cls # "none"
    /\ \E input_signal \in Inputs(q) :
        /\ x' = input_signal
        /\ y' = Quantize(q, input_signal)
    /\ called' = TRUE
    /\ requantized' = FALSE
    /\ UNCHANGED <<args, q, err>>

\* quantizer(quantizer(x)): the previous output is the next input
Requantize ==
    /\ called
    /\ ~requantized
    /\ x' = y
    /\ y' = Quantize(q, y)
    /\ requantized' = TRUE
    /\ UNCHANGED <<args, q, err, called>>

Next ==
    \/ NewScalarQuantizer
    \/ NewUniformQuantizer
    \/ Call
    \/ Requantize

Spec == Init /\ [][Next]_vars

TypeOK ==
    /\ err \in {"none", "ValueError", "ZeroDivisionError"}
    /\ q.cls \in {"none", "ScalarQuantizer", "UniformQuantizer"}
    /\ (q.cls # "none") => err = "none"
    /\ called \in BOOLEAN
    /\ requantized \in BOOLEAN
    \* the divisions of the constructor are exact in model units
    /\ (q.cls = "UniformQuantizer") =>
          /\ q.quantization_step * q.num_levels
                = (IF q.type = "unsigned" THEN 1 ELSE 2) * q.input_peak
          /\ q.quantization_step % 2 = 0
          /\ \A i \in 1..q.num_levels :
                (IsFinite(q.levels[i]) /\ q.type = "unsigned")
                    => q.levels[i] * q.num_levels = q.input_peak * (i - 1)

(***************************************************************************)
(* Properties.                                                             *)
(***************************************************************************)
StrictlyIncreasing(s) == \A i \in 1..(Len(s) - 1) : s[i] < s[i + 1]

Abs(v) == IF v < 0 THEN -v ELSE v

\* the level v_i with t_i <= v < t_{i+1}
IntervalLevel(levels, thresholds, v) ==
    levels[Cardinality({j \in 1..Len(thresholds) : thresholds[j] <= v}) + 1]

\* the level nearest to v, the higher one on a tie
NearestLevelTieHigh(levels, v) ==
    CHOOSE l \in Range(levels) :
        \A o \in Range(levels) :
            \/ Abs(v - l) < Abs(v - o)
            \/ Abs(v - l) = Abs(v - o) /\ l >= o

MidModes == {"mid-riser", "mid-tread"}

\* C1: a ScalarQuantizer maps every input x to the level v_i with
\* t_i <= x < t_{i+1}; an input equal to a threshold goes to the higher level.
C1_HalfOpenInterval ==
    (q.cls = "ScalarQuantizer" /\ called)
        => y = IntervalLevel(q.levels, q.thresholds, x)

\* C2: for a mid-riser or mid-tread UniformQuantizer the closed-form result
\* equals the generic search on the same levels and thresholds, for every input.
C2_ClosedFormEqualsSearch ==
    (q.cls = "UniformQuantizer" /\ q.type \in MidModes /\ called)
        => y = ScalarCall(q.levels, q.thresholds, x)

\* C3: an unsigned UniformQuantizer returns what the generic search returns
\* on its own levels and thresholds.
C3_UnsignedEqualsSearch ==
    (q.cls = "UniformQuantizer" /\ q.type = "unsigned" /\ called)
        => y = ScalarCall(q.levels, q.thresholds, x)

C4_Valid ==
    /\ Len(args.thresholds) = Len(args.levels) - 1
    /\ StrictlyIncreasing(Interleave(args.levels, args.thresholds))

\* C4: constructing a ScalarQuantizer succeeds exactly when there is one
\* threshold fewer than levels and the interleaved sequence is strictly
\* increasing; otherwise it raises ValueError and no object exists.
C4_ConstructionIffInterleaved ==
    (args.cls = "ScalarQuantizer") =>
        /\ C4_Valid => (err = "none" /\ q = ScalarQuantizer(args.levels, args.thresholds))
        /\ ~C4_Valid => (err = "ValueError" /\ q = NoQuantizer)

C4_Witness ==
    /\ args.cls = "ScalarQuantizer"
    /\ q.cls = "ScalarQuantizer"
    /\ q.levels = <<-Unit, 0, Unit>>
    /\ q.thresholds = <<-(Unit \div 2), 8 * Tenth>>

\* C5: every output of every quantizer is one of its levels.
C5_OutputIsLevel ==
    called => y \in Range(q.levels)

\* C6: quantize(quantize(x)) = quantize(x) for every quantizer and input.
C6_Idempotent ==
    requantized => y = x

C6_Witness ==
    /\ requantized
    /\ q.cls = "UniformQuantizer"
    /\ q.type = "mid-riser"
    /\ y # 0
    /\ y \notin Range(q.levels)

\* C7: quantization is monotone non-decreasing: of two calls on the same
\* quantizer, the one with the larger input has the larger or equal output.
C7_Monotone ==
    [][(called /\ called' /\ q' = q /\ x <= x') => y <= y']_vars

C7_Witness ==
    /\ called
    /\ q.cls = "ScalarQuantizer"
    /\ q.num_levels = 3
    /\ y = q.levels[3]
    /\ x = q.thresholds[2] + 1

\* x = -0.5, -0.4, ..., 0.5 and the staircase of the doctest
DocInputs == {k * Tenth : k \in (-5)..5}

DocStaircase(v) ==
    IF v <= -4 * Tenth THEN -(Unit \div 2)
    ELSE IF v <= -2 * Tenth THEN -(Unit \div 4)
    ELSE IF v <= Tenth THEN 0
    ELSE IF v <= 3 * Tenth THEN Unit \div 4
    ELSE Unit \div 2

C8_InRange ==
    /\ q.levels[1] - q.quantization_step \div 2 <= x
    /\ x < q.levels[q.num_levels] + q.quantization_step \div 2

\* C8: a mid-riser UniformQuantizer with even num_levels and positive
\* input_peak maps every x within half a step of its levels to the nearest
\* level, ties going up; for 8 levels and peak 1 the inputs -0.5, -0.4, ...,
\* 0.5 give -0.5, -0.5, -0.25, -0.25, 0, 0, 0, 0.25, 0.25, 0.5, 0.5.
C8_MidRiserNearestLevel ==
    (/\ q.cls = "UniformQuantizer"
     /\ q.type = "mid-riser"
     /\ q.num_levels >= 2
     /\ q.num_levels % 2 = 0
     /\ q.input_peak > 0
     /\ called
     /\ C8_InRange) =>
        /\ y = NearestLevelTieHigh(q.levels, x)
        /\ (q.num_levels = DocNumLevels /\ q.input_peak = Unit /\ x \in DocInputs)
               => y = DocStaircase(x)

C8_Witness ==
    /\ q.cls = "UniformQuantizer"
    /\ q.type = "mid-riser"
    /\ q.num_levels = DocNumLevels
    /\ q.input_peak = Unit
    /\ called
    /\ x = q.thresholds[6]
    /\ y = q.levels[7]

\* C9: in every constructed UniformQuantizer with at least two levels,
\* adjacent levels are quantization_step apart and every threshold is the
\* midpoint of its two adjacent levels.
C9_UniformSpacing ==
    (q.cls = "UniformQuantizer" /\ q.num_levels >= 2) =>
        \A i \in 1..(q.num_levels - 1) :
            /\ q.levels[i + 1] - q.levels[i] = q.quantization_step
            /\ 2 * q.thresholds[i] = q.levels[i] + q.levels[i + 1]

\* C10: constructing a UniformQuantizer with num_levels = 0, or with a
\* negative input_peak and num_levels >= 1, raises ValueError in every mode
\* and yields no object.
C10_BadParametersRaiseValueError ==
    (/\ args.cls = "UniformQuantizer"
     /\ args.type_ \in Types
     /\ \/ args.num_levels = 0
        \/ args.input_peak < 0 /\ args.num_levels >= 1) =>
        /\ err = "ValueError"
        /\ q = NoQuantizer
====
